---------------------------- MODULE Spec2Model ----------------------------
(***************************************************************************)
(* State-machine model of rabbit-digger's core: the topological builder    *)
(* (src/src/util.rs), the controller and its event bus                     *)
(* (src/src/controller.rs), named-reference resolution and the net         *)
(* factory (src/rd-interface/src/registry.rs, registry/net_ref.rs) and the *)
(* domain matcher (src/rd-std/src/rule/domain.rs).                         *)
(*                                                                         *)
(* Every component has its own variables, initial condition and next-state *)
(* relation; a specification runs one component and leaves the others at   *)
(* rest.                                                                   *)
(***************************************************************************)
EXTENDS Integers, Sequences, FiniteSets, TLC

VARIABLES
    \* topological_sort (util.rs)
    map,        \* the input HashMap<K, V>
    ts,         \* the TopologicalSort<K> being filled and popped
    list,       \* Vec<K> of popped keys
    ts_pc,      \* position inside topological_sort
    ts_result,  \* the value topological_sort returned
    \* the event bus (controller.rs)
    rx,         \* events in the unbounded mpsc channel, oldest first
    tx_open,    \* some UnboundedSender of the channel is still alive
    sent,       \* history: the events in the order they entered the channel
    events,     \* the BatchEvent the task is assembling
    published,  \* history: the batches handed to sender.send, in order
    last_send,  \* the Result of the last sender.send (dropped by .ok())
    subs,       \* live broadcast receivers
    process_pc, \* position of the batching task inside process
    \* the configuration slot (controller.rs)
    config,     \* Inner.config
    writer,     \* the caller holding the write lock, 0 when none
    readers,    \* the callers holding a read lock
    call,       \* per caller: the call in progress and its last result
    \* NetResolver (registry.rs) and named references (net_ref.rs)
    ref_op,     \* the NetResolver function called: "build" or "get_dependency"
    cfg,        \* its argument cfg: Value
    nets,       \* its argument nets: &NetMap (build)
    ctor_ok,    \* whether the factory's N::new accepts the configuration
    typed,      \* the typed configuration N::Config: its NetRefs in visit order
    tmp_map,    \* get_dependency's stub map
    built,      \* history: how often N::new was invoked
    ref_pc,     \* position inside the NetResolver function
    ref_result, \* the value the function returned
    \* the domain matcher (rule/domain.rs)
    matcher,    \* the DomainMatcher: its method and its domain (the pattern)
    addr,       \* the Address match_rule is called with
    dm_pc,      \* position: before or after the call of match_rule
    dm_result,  \* the value match_rule returned
    \* the Select composite (composite/select.rs)
    sel_in,     \* the HashMap<String, Net> SelectNet::new is called with
    sel_vec,    \* SelectNet.0, the Vec<Net> of candidates
    sel_pc,     \* before SelectNet::new, after it succeeded, after it failed
    sel_call,   \* the last INet call on the SelectNet and its outcome
    \* connections through ControllerNet (controller.rs:36-68)
    conn,       \* per connection: its state, the address asked for, the
                \* outcome of tcp_connect and the events it sent, in order
    payload,    \* the EventType of every event sent, by event id
    \* the mixed HTTP+SOCKS5 listener (rd-std/src/mixed.rs)
    mx_loop,    \* where start() stands: binding, listening, or returned
    mx_result,  \* what start() returned, if it did
    mx_tasks,   \* the spawned connection tasks, in the order of accept
    mx_log,     \* the tasks whose error tracing::error! reported, in order
    \* one NetRef through its life (rd-interface/src/registry/net_ref.rs)
    nr_ref,     \* the NetRef: its name and its Option<Net>
    nr_nets,    \* the NetMap resolve is called with
    nr_origin,  \* how the NetRef was made, "none" before
    nr_resolve, \* the outcomes of the resolve calls made on it, in order
    nr_use,     \* net() or dereference: its outcome, the resolve calls before it
    \* the Registry (rd-interface/src/registry.rs)
    reg_net,    \* Registry.net: kind name -> the net factory registered
    reg_server, \* Registry.server: kind name -> the server factory registered
    reg_log     \* the registrations made, in order

topoVars == <<map, ts, list, ts_pc, ts_result>>
busVars == <<rx, tx_open, sent, events, published, last_send, subs, process_pc>>
slotVars == <<config, writer, readers, call>>
refVars == <<ref_op, cfg, nets, ctor_ok, typed, tmp_map, built, ref_pc, ref_result>>
domVars == <<matcher, addr, dm_pc, dm_result>>
selVars == <<sel_in, sel_vec, sel_pc, sel_call>>
connVars == <<conn, payload>>
mxVars == <<mx_loop, mx_result, mx_tasks, mx_log>>
nrVars == <<nr_ref, nr_nets, nr_origin, nr_resolve, nr_use>>
regVars == <<reg_net, reg_server, reg_log>>

vars == <<topoVars, busVars, slotVars, refVars, domVars, selVars, connVars, mxVars, nrVars, regVars>>

\* What a step of one component leaves alone.
TopoFrame == UNCHANGED <<busVars, slotVars, refVars, domVars, selVars, connVars, mxVars, nrVars, regVars>>
BusFrame == UNCHANGED <<topoVars, slotVars, refVars, domVars, selVars, connVars, mxVars, nrVars, regVars>>
SlotFrame == UNCHANGED <<topoVars, busVars, refVars, domVars, selVars, connVars, mxVars, nrVars, regVars>>
RefFrame == UNCHANGED <<topoVars, busVars, slotVars, domVars, selVars, connVars, mxVars, nrVars, regVars>>
DomFrame == UNCHANGED <<topoVars, busVars, slotVars, refVars, selVars, connVars, mxVars, nrVars, regVars>>
SelFrame == UNCHANGED <<topoVars, busVars, slotVars, refVars, domVars, connVars, mxVars, nrVars, regVars>>
\* A step of a connection sends on the event channel.
ConnFrame == UNCHANGED <<topoVars, slotVars, refVars, domVars, selVars, mxVars, nrVars, regVars>>
MxFrame == UNCHANGED <<topoVars, busVars, slotVars, refVars, domVars, selVars, connVars, nrVars, regVars>>
NrFrame == UNCHANGED <<topoVars, busVars, slotVars, refVars, domVars, selVars, connVars, mxVars, regVars>>
RegFrame == UNCHANGED <<topoVars, busVars, slotVars, refVars, domVars, selVars, connVars, mxVars, nrVars>>

-----------------------------------------------------------------------------
(***************************************************************************)
(* Generic helpers.                                                        *)
(***************************************************************************)

\* All sequences over S of length at most n.
SeqsUpTo(S, n) == UNION {[1..m -> S] : m \in 0..n}

\* The set of elements of a sequence.
Range(s) == {s[i] : i \in DOMAIN s}

\* All orders in which an iteration can visit the finite set S.
Orders(S) == {o \in [1..Cardinality(S) -> S] : Range(o) = S}

\* f extended (or overwritten) at k with v.
Extend(f, k, v) == [x \in DOMAIN f \cup {k} |-> IF x = k THEN v ELSE f[x]]

-----------------------------------------------------------------------------
(***************************************************************************)
(* topological_sort, src/src/util.rs                                       *)
(***************************************************************************)

\* The key type K.
Keys == {"a", "b", "c"}

\* Longest dependency list get_deps returns in the model.
MaxDeps == 2

\* A value V of the map is given by what get_deps makes of it: a list of
\* dependency keys (any keys, also keys the map does not hold, also
\* repeated), or an error.
Values ==
    {[fails |-> FALSE, deps |-> d] : d \in SeqsUpTo(Keys, MaxDeps)}
        \cup {[fails |-> TRUE, deps |-> <<>>]}

\* Every HashMap<K, V> over a subset of the keys.
Maps == UNION {[S -> Values] : S \in SUBSET Keys}

\* TopologicalSort::new(): no item.
ts_new == [k \in {} |-> [num_prec |-> 0, succ |-> {}]]

\* TopologicalSort::add_dependency(prec, succ): registers succ among the
\* successors of prec and counts one more predecessor of succ, unless the
\* dependency is already registered.
add_dependency(t, prec, succ) ==
    IF prec \in DOMAIN t /\ succ \in t[prec].succ
    THEN t
    ELSE LET t1 == IF prec \in DOMAIN t
                   THEN [t EXCEPT ![prec].succ = @ \cup {succ}]
                   ELSE Extend(t, prec, [num_prec |-> 0, succ |-> {succ}])
         IN IF succ \in DOMAIN t1
            THEN [t1 EXCEPT ![succ].num_prec = @ + 1]
            ELSE Extend(t1, succ, [num_prec |-> 1, succ |-> {}])

\* A mutant of add_deps: the two arguments of add_dependency swapped.
RECURSIVE add_deps_swapped(_, _, _)
add_deps_swapped(t, k, deps) ==
    IF deps = <<>> THEN t
    ELSE add_deps_swapped(add_dependency(t, k, Head(deps)), k, Tail(deps))

\* The inner loop, util.rs:16-18: every dependency d of entry k, in the
\* order of the list, is added as "d precedes k".
RECURSIVE add_deps(_, _, _)
add_deps(t, k, deps) ==
    IF deps = <<>> THEN t
    ELSE add_deps(add_dependency(t, Head(deps), k), k, Tail(deps))

\* The outer loop, util.rs:15-19, over the entries in iteration order ord:
\* the first entry whose get_deps fails ends the function with that error.
RECURSIVE add_entries(_, _, _)
add_entries(t, m, ord) ==
    IF ord = <<>> THEN [ok |-> TRUE, ts |-> t, err |-> ""]
    ELSE IF m[Head(ord)].fails
         THEN [ok |-> FALSE, ts |-> t, err |-> Head(ord)]
         ELSE add_entries(add_deps(t, Head(ord), m[Head(ord)].deps), m, Tail(ord))

\* TopologicalSort::peek(): the items no remaining item precedes.
peek(t) == {k \in DOMAIN t : t[k].num_prec = 0}

\* TopologicalSort::remove(prec), the effect of pop(): the item leaves and
\* each of its remaining successors has one predecessor less.
remove(t, prec) ==
    [x \in DOMAIN t \ {prec} |->
        IF x \in t[prec].succ THEN [t[x] EXCEPT !.num_prec = @ - 1] ELSE t[x]]

\* A mutant of ts_len: the cycle check of util.rs:26 never fires.
ts_len_zero(t) == 0

\* TopologicalSort::len(): the number of items left.
ts_len(t) == Cardinality(DOMAIN t)

\* A mutant of filter_map: a popped key the map does not hold is kept, with
\* a value of no dependencies.
RECURSIVE filter_map_keep(_, _)
filter_map_keep(l, m) ==
    IF l = <<>> THEN <<>>
    ELSE IF Head(l) \in DOMAIN m
         THEN <<[k |-> Head(l), v |-> m[Head(l)]]>>
                  \o filter_map_keep(Tail(l), [x \in DOMAIN m \ {Head(l)} |-> m[x]])
         ELSE <<[k |-> Head(l), v |-> [fails |-> FALSE, deps |-> <<>>]]>>
                  \o filter_map_keep(Tail(l), m)

\* util.rs:31-37: each popped key takes its value out of the map
\* (map.remove); a key the map does not hold (any more) is filtered out.
RECURSIVE filter_map(_, _)
filter_map(l, m) ==
    IF l = <<>> THEN <<>>
    ELSE IF Head(l) \in DOMAIN m
         THEN <<[k |-> Head(l), v |-> m[Head(l)]]>>
                  \o filter_map(Tail(l), [x \in DOMAIN m \ {Head(l)} |-> m[x]])
         ELSE filter_map(Tail(l), m)

NoResult == [kind |-> "none"]

TopoInit ==
    /\ map \in Maps
    /\ ts = ts_new
    /\ list = <<>>
    /\ ts_pc = "deps"
    /\ ts_result = NoResult

\* The state of the component while another one runs.
TopoRest ==
    /\ map = [k \in {} |-> [fails |-> FALSE, deps |-> <<>>]]
    /\ ts = ts_new
    /\ list = <<>>
    /\ ts_pc = "rest"
    /\ ts_result = NoResult

\* util.rs:13-19: the dependencies of every entry are added; an error of
\* get_deps is returned at once ("?").
AddDependencies ==
    /\ ts_pc = "deps"
    /\ \E ord \in Orders(DOMAIN map) :
        LET r == add_entries(ts, map, ord)
        IN IF r.ok
           THEN /\ ts' = r.ts
                /\ ts_pc' = "pop"
                /\ ts_result' = ts_result
           ELSE /\ ts' = ts
                /\ ts_pc' = "done"
                /\ ts_result' = [kind |-> "Err", key |-> r.err]
    /\ UNCHANGED <<map, list>>
    /\ TopoFrame

\* util.rs:22-24: one iteration of "while let Some(k) = ts.pop()".
Pop ==
    /\ ts_pc = "pop"
    /\ \E k \in peek(ts) :
        /\ list' = Append(list, k)
        /\ ts' = remove(ts, k)
    /\ UNCHANGED <<map, ts_pc, ts_result>>
    /\ TopoFrame

\* util.rs:22, 26-38: pop() returned None; items left over mean a cycle,
\* Ok(None), and otherwise the popped keys are returned with their values.
Finish ==
    /\ ts_pc = "pop"
    /\ peek(ts) = {}
    /\ ts_pc' = "done"
    /\ ts_result' = IF ts_len(ts) > 0
                    THEN [kind |-> "Cycle"]
                    ELSE [kind |-> "Order", order |-> filter_map(list, map)]
    /\ UNCHANGED <<map, ts, list>>
    /\ TopoFrame

TopoNext == AddDependencies \/ Pop \/ Finish

-----------------------------------------------------------------------------
(***************************************************************************)
(* Properties of topological_sort.                                         *)
(***************************************************************************)

\* get_deps succeeds on every value of m.
NoError(m) == \A k \in DOMAIN m : ~m[k].fails

\* The dependency graph of m has a cycle: some entries of m, each naming
\* the next in its dependency list and the last naming the first (one entry
\* naming itself included).
Cyclic(m) ==
    \E p \in SeqsUpTo(DOMAIN m, Cardinality(DOMAIN m)) :
        /\ p # <<>>
        /\ \A i \in 1..(Len(p) - 1) : p[i + 1] \in Range(m[p[i]].deps)
        /\ p[1] \in Range(m[p[Len(p)]].deps)

\* The keys of a returned order, in order.
OrderKeys(o) == [i \in DOMAIN o |-> o[i].k]

\* topological_sort has returned for an input whose graph is acyclic.
SortedAcyclic == ts_pc = "done" /\ NoError(map) /\ ~Cyclic(map)

\* C1: for an acyclic input, topological_sort returns an order in which
\* every entry comes after each entry of the map its dependency list names.
C1_DependenciesFirst ==
    SortedAcyclic =>
        /\ ts_result.kind = "Order"
        /\ \A k \in DOMAIN map :
             \A d \in Range(map[k].deps) \cap DOMAIN map :
                \E i, j \in DOMAIN ts_result.order :
                    /\ ts_result.order[i].k = d
                    /\ ts_result.order[j].k = k
                    /\ i < j

\* A chain of three entries has been sorted.
C1_Witness ==
    /\ SortedAcyclic
    /\ ts_result.kind = "Order"
    /\ \E k, d, e \in DOMAIN map :
        /\ d \in Range(map[k].deps)
        /\ e \in Range(map[d].deps)

\* C2: for an acyclic input, the returned order holds every entry of the
\* map exactly once, entries without any dependency relation included.
C2_FullOrdering ==
    SortedAcyclic =>
        /\ ts_result.kind = "Order"
        /\ Range(OrderKeys(ts_result.order)) = DOMAIN map
        /\ Len(ts_result.order) = Cardinality(DOMAIN map)

\* C3: for an input whose graph has a cycle, topological_sort returns the
\* cycle signal Ok(None) and nothing else, also when some entries are on no
\* cycle.
C3_CycleSignalled ==
    (ts_pc = "done" /\ NoError(map) /\ Cyclic(map)) =>
        ts_result = [kind |-> "Cycle"]

\* A cyclic input was sorted after an entry outside the cycle was popped.
C3_Witness ==
    /\ ts_pc = "done"
    /\ NoError(map)
    /\ Cyclic(map)
    /\ list # <<>>
    /\ \E k \in DOMAIN map : k \in Range(list)

\* The dependency keys of m that name no entry of m.
Dangling(m) == UNION {Range(m[k].deps) : k \in DOMAIN m} \ DOMAIN m

\* C22: a returned order holds only keys of the input map, each at most
\* once, with the value the map holds for it; a dependency key that names no
\* entry of the map is in no returned order and changes nothing in the
\* outcome, which is an order whenever no get_deps fails and the entries
\* form no cycle; and the result is an error exactly when get_deps fails on
\* some entry, the error being that of an entry it fails on.
C22_OnlyMapKeys ==
    ts_pc = "done" =>
        /\ ts_result.kind = "Order" =>
             /\ \A i \in DOMAIN ts_result.order :
                    /\ ts_result.order[i].k \in DOMAIN map
                    /\ ts_result.order[i].v = map[ts_result.order[i].k]
             /\ \A i, j \in DOMAIN ts_result.order :
                    ts_result.order[i].k = ts_result.order[j].k => i = j
        /\ (NoError(map) /\ ~Cyclic(map)) => ts_result.kind = "Order"
        /\ ts_result.kind = "Err" <=> ~NoError(map)
        /\ ts_result.kind = "Err" =>
             /\ ts_result.key \in DOMAIN map
             /\ map[ts_result.key].fails

\* An order was returned for a map with a dependency key that names no
\* entry: the key was popped and is not in the order.
C22_Witness ==
    /\ ts_pc = "done"
    /\ ts_result.kind = "Order"
    /\ ts_result.order # <<>>
    /\ \E d \in Dangling(map) : d \in Range(list)

-----------------------------------------------------------------------------
(***************************************************************************)
(* The event bus: Controller::new and process, src/src/controller.rs       *)
(***************************************************************************)

\* The capacity the batch is created with, BatchEvent::with_capacity(16).
BatchCap == 16

\* Events the producers send in the model (SpecBus).
MaxEvents == 5

\* Broadcast receivers alive at once in the model.
MaxSubs == 1

\* rx.recv().now_or_never(): Some(Some(e)) when an event is queued,
\* Some(None) when the channel is empty and every sender is gone, None
\* (recv is pending) when it is empty and a sender is alive.
recv_now(q, open) ==
    IF q # <<>> THEN [tag |-> "SomeSome", e |-> Head(q)]
    ELSE IF ~open THEN [tag |-> "SomeNone", e |-> 0]
    ELSE [tag |-> "None", e |-> 0]

\* A faulty variant of push: the event is dropped and the batch stays as it
\* was.
push_lost(batch, e) == batch

\* A faulty variant of push: the event is put in front of the batch.
push_front(batch, e) == <<e>> \o batch

\* events.push(Arc::new(e)), controller.rs:82 and 84.
push(batch, e) == Append(batch, e)

\* broadcast::Sender::send: an error only when no receiver is alive.
broadcast_send(n) == IF n > 0 THEN "Ok" ELSE "Err"

\* Controller::new: both channels are empty, the first broadcast receiver
\* is dropped at once, the task is spawned and stands at the top of its loop.
BusInit ==
    /\ rx = <<>>
    /\ tx_open = TRUE
    /\ sent = <<>>
    /\ events = <<>>
    /\ published = <<>>
    /\ last_send = "none"
    /\ subs = 0
    /\ process_pc = "recv"

\* The state of the component while another one runs.
BusRest ==
    /\ rx = <<>>
    /\ tx_open = FALSE
    /\ sent = <<>>
    /\ events = <<>>
    /\ published = <<>>
    /\ last_send = "none"
    /\ subs = 0
    /\ process_pc = "rest"

\* A holder of the event sender (ControllerNet::tcp_connect, the stream
\* wrapper) sends one event, controller.rs:51: the event, identified by its
\* uuid, joins the end of the unbounded channel.  At most limit events are
\* sent.
Send(limit) ==
    /\ tx_open
    /\ Len(sent) < limit
    /\ LET e == Len(sent) + 1
       IN /\ rx' = Append(rx, e)
          /\ sent' = Append(sent, e)
    /\ UNCHANGED <<tx_open, events, published, last_send, subs, process_pc>>
    /\ BusFrame

\* The Controller and every ControllerNet and stream holding a clone of
\* event_sender are dropped: the channel is closed for sending.
DropSenders ==
    /\ tx_open
    /\ tx_open' = FALSE
    /\ UNCHANGED <<rx, sent, events, published, last_send, subs, process_pc>>
    /\ BusFrame

\* Controller::get_subscriber, controller.rs:132-134.
Subscribe ==
    /\ subs < MaxSubs
    /\ subs' = subs + 1
    /\ UNCHANGED <<rx, tx_open, sent, events, published, last_send, process_pc>>
    /\ BusFrame

\* A broadcast receiver is dropped.
Unsubscribe ==
    /\ subs > 0
    /\ subs' = subs - 1
    /\ UNCHANGED <<rx, tx_open, sent, events, published, last_send, process_pc>>
    /\ BusFrame

\* controller.rs:72-73, 81-82: the first event of a batch is received.
RecvFirst ==
    /\ process_pc = "recv"
    /\ recv_now(rx, tx_open).tag = "SomeSome"
    /\ events' = push(<<>>, recv_now(rx, tx_open).e)
    /\ rx' = Tail(rx)
    /\ process_pc' = "drain"
    /\ UNCHANGED <<tx_open, sent, published, last_send, subs>>
    /\ BusFrame

\* controller.rs:74: the channel is closed and empty, the task leaves its loop.
RecvClosed ==
    /\ process_pc = "recv"
    /\ recv_now(rx, tx_open).tag = "SomeNone"
    /\ process_pc' = "done"
    /\ UNCHANGED <<rx, tx_open, sent, events, published, last_send, subs>>
    /\ BusFrame

\* controller.rs:75-78: nothing is available, the task sleeps 100 ms.
RecvPending ==
    /\ process_pc = "recv"
    /\ recv_now(rx, tx_open).tag = "None"
    /\ process_pc' = "sleep"
    /\ UNCHANGED <<rx, tx_open, sent, events, published, last_send, subs>>
    /\ BusFrame

\* controller.rs:76-77: the sleep is over, "continue".
Wake ==
    /\ process_pc = "sleep"
    /\ process_pc' = "recv"
    /\ UNCHANGED <<rx, tx_open, sent, events, published, last_send, subs>>
    /\ BusFrame

\* controller.rs:83-85: one iteration of the draining while loop.
DrainOne ==
    /\ process_pc = "drain"
    /\ recv_now(rx, tx_open).tag = "SomeSome"
    /\ events' = push(events, recv_now(rx, tx_open).e)
    /\ rx' = Tail(rx)
    /\ UNCHANGED <<tx_open, sent, published, last_send, subs, process_pc>>
    /\ BusFrame

\* controller.rs:83, 87-88: the while loop ends on the first recv that gives
\* no event, and the batch is sent; the Result of send is dropped by .ok().
Publish ==
    /\ process_pc = "drain"
    /\ recv_now(rx, tx_open).tag # "SomeSome"
    /\ published' = Append(published, events)
    /\ last_send' = broadcast_send(subs)
    /\ events' = <<>>
    /\ process_pc' = "recv"
    /\ UNCHANGED <<rx, tx_open, sent, subs>>
    /\ BusFrame

\* The steps of the batching task.
Process == RecvFirst \/ RecvClosed \/ RecvPending \/ Wake \/ DrainOne \/ Publish

BusNext ==
    \/ Send(MaxEvents)
    \/ DropSenders
    \/ Subscribe
    \/ Unsubscribe
    \/ RecvFirst
    \/ RecvClosed
    \/ RecvPending
    \/ Wake
    \/ DrainOne
    \/ Publish

\* The bus with one event more than BatchCap to send and no subscriber.
BurstNext ==
    \/ Send(BatchCap + 1)
    \/ DropSenders
    \/ RecvFirst
    \/ RecvClosed
    \/ RecvPending
    \/ Wake
    \/ DrainOne
    \/ Publish

\* Events the model keeps of the channel and of the batch in assembly when
\* the producers never stop (SpecFlow).
FlowCap == 4

\* A producer sends an event while the first batch is not yet published.
\* The producers send without end: the first event sent is 1, the one the
\* model follows (sent records it alone), and every later one is written 2.
\* The channel is unbounded; the model lets a producer send when fewer than
\* FlowCap events are queued.
FlowSend ==
    /\ published = <<>>
    /\ tx_open
    /\ Len(rx) < FlowCap
    /\ rx' = Append(rx, IF sent = <<>> THEN 1 ELSE 2)
    /\ sent' = <<1>>
    /\ UNCHANGED <<tx_open, events, published, last_send, subs, process_pc>>
    /\ BusFrame

\* controller.rs:83-85, as DrainOne: one iteration of the draining while
\* loop.  The Vec grows by one event every time; the model keeps its first
\* FlowCap events.
FlowDrainOne ==
    /\ published = <<>>
    /\ process_pc = "drain"
    /\ recv_now(rx, tx_open).tag = "SomeSome"
    /\ events' = IF Len(events) < FlowCap
                 THEN push(events, recv_now(rx, tx_open).e)
                 ELSE events
    /\ rx' = Tail(rx)
    /\ UNCHANGED <<tx_open, sent, published, last_send, subs, process_pc>>
    /\ BusFrame

\* The steps of the batching task up to the first batch it publishes.
FlowProcess ==
    /\ published = <<>>
    /\ (RecvFirst \/ RecvClosed \/ RecvPending \/ Wake \/ FlowDrainOne \/ Publish)

\* The bus with producers that never stop, followed until the first batch is
\* published.
FlowNext ==
    \/ FlowSend
    \/ published = <<>> /\ DropSenders
    \/ published = <<>> /\ Subscribe
    \/ published = <<>> /\ Unsubscribe
    \/ FlowProcess

-----------------------------------------------------------------------------
(***************************************************************************)
(* ControllerNet and the streams it wraps, src/src/controller.rs:36-68     *)
(***************************************************************************)

\* The connections opened in the model.
Conns == {"c1", "c2"}

\* The addresses tcp_connect is asked for.
ConnAddrs == {"addr1", "addr2"}

\* Byte counts of one read or write.
Sizes == {1}

\* Events the connections send in the model (SpecConn).
MaxConnEvents == 4

\* A connection tcp_connect was not yet called for.
NoConn == [st |-> "idle", addr |-> "none", result |-> "none", log |-> <<>>]

\* The sender's send as the wrapper uses it: the event joins the end of the
\* unbounded channel; it never waits and never fails while the receiver
\* lives.
wrapper_send(q, e) == Append(q, e)

\* A faulty variant of tcp_connect: no NewTcp event is sent.
tcp_connect_silent(a, ok) ==
    IF ok
    THEN [result |-> "Ok", events |-> <<>>]
    ELSE [result |-> "Err", events |-> <<>>]

\* A faulty variant of tcp_connect: NewTcp is sent before the inner connect
\* is known to have succeeded.
tcp_connect_eager(a, ok) ==
    [result |-> IF ok THEN "Ok" ELSE "Err",
     events |-> <<[type |-> "NewTcp", arg |-> a]>>]

\* ControllerNet::tcp_connect, controller.rs:44-53, given whether the inner
\* net's tcp_connect succeeds: the inner error is returned by "?" before
\* anything else is done; else the stream is wrapped, NewTcp(addr) is sent
\* and the wrapped stream is returned.
tcp_connect(a, ok) ==
    IF ~ok
    THEN [result |-> "Err", events |-> <<>>]
    ELSE [result |-> "Ok", events |-> <<[type |-> "NewTcp", arg |-> a]>>]

\* No connection was opened.
ConnRest ==
    /\ conn = [c \in Conns |-> NoConn]
    /\ payload = <<>>

\* The event e of connection c is sent and the connection's state becomes
\* st: the event gets the next id and joins the channel, the record of what
\* was sent and the connection's own log.
Emit(c, e, st) ==
    LET id == Len(sent) + 1
        ev == [conn |-> c, type |-> e.type, arg |-> e.arg]
    IN /\ rx' = wrapper_send(rx, id)
       /\ sent' = Append(sent, id)
       /\ payload' = Append(payload, ev)
       /\ conn' = [conn EXCEPT ![c].st = st, ![c].log = Append(@, ev)]

\* tcp_connect(ctx, a) on the ControllerNet for connection c; ok is whether
\* the inner net connects.
TcpConnect(c, a, ok) ==
    /\ tx_open
    /\ conn[c].st = "idle"
    /\ Len(sent) < MaxConnEvents
    /\ LET r == tcp_connect(a, ok)
           ids == [i \in DOMAIN r.events |-> Len(sent) + i]
           evs == [i \in DOMAIN r.events |->
                     [conn |-> c, type |-> r.events[i].type, arg |-> r.events[i].arg]]
       IN /\ rx' = IF ids = <<>> THEN rx ELSE wrapper_send(rx, ids[1])
          /\ sent' = sent \o ids
          /\ payload' = payload \o evs
          /\ conn' = [conn EXCEPT ![c] =
                        [st |-> IF r.result = "Ok" THEN "open" ELSE "failed",
                         addr |-> a, result |-> r.result, log |-> evs]]
    /\ UNCHANGED <<tx_open, events, published, last_send, subs, process_pc>>
    /\ ConnFrame

\* The wrapped stream of c reads (Inbound) or writes (Outbound) n bytes.
StreamIo(c, dir, n) ==
    /\ tx_open
    /\ conn[c].st = "open"
    /\ Len(sent) < MaxConnEvents
    /\ Emit(c, [type |-> dir, arg |-> n], "open")
    /\ UNCHANGED <<tx_open, events, published, last_send, subs, process_pc>>
    /\ ConnFrame

\* The wrapped stream of c is closed.
StreamClose(c) ==
    /\ tx_open
    /\ conn[c].st = "open"
    /\ Len(sent) < MaxConnEvents
    /\ Emit(c, [type |-> "CloseConnection", arg |-> 0], "closed")
    /\ UNCHANGED <<tx_open, events, published, last_send, subs, process_pc>>
    /\ ConnFrame

\* Connections through the ControllerNet feeding the batching task; the
\* ControllerNet holds its sender throughout, so the channel stays open.
ConnNext ==
    \/ \E c \in Conns, a \in ConnAddrs, ok \in BOOLEAN : TcpConnect(c, a, ok)
    \/ \E c \in Conns, dir \in {"Inbound", "Outbound"}, n \in Sizes : StreamIo(c, dir, n)
    \/ \E c \in Conns : StreamClose(c)
    \/ Subscribe
    \/ Unsubscribe
    \/ RecvFirst
    \/ RecvPending
    \/ Wake
    \/ DrainOne
    \/ Publish

-----------------------------------------------------------------------------
(***************************************************************************)
(* Properties of the event bus.                                            *)
(***************************************************************************)

\* The batches of a sequence of batches, concatenated in order.
RECURSIVE Flatten(_)
Flatten(bs) == IF bs = <<>> THEN <<>> ELSE Head(bs) \o Flatten(Tail(bs))

\* C4: every batch the batching task publishes holds at most 16 events,
\* however many events are available when the batch is assembled.
C4_BatchCapped ==
    \A i \in DOMAIN published : Len(published[i]) <= BatchCap

\* C5: the published batches, concatenated in publish order, are the events
\* in the order they entered the channel: at every moment the published
\* events, then those of the batch in assembly, then those still queued make
\* up exactly the sequence sent, so nothing is lost, duplicated or reordered
\* and once the channel is drained the concatenation equals that sequence.
C5_OrderPreserved ==
    Flatten(published) \o events \o rx = sent

\* Several batches, one of them with more than one event, were published
\* and the channel is drained.
C5_Witness ==
    /\ Len(published) >= 2
    /\ \E i \in DOMAIN published : Len(published[i]) >= 2
    /\ rx = <<>>
    /\ events = <<>>
    /\ Len(sent) >= 3
    /\ Flatten(published) = sent

C21_BatchNonEmpty ==
    /\ \A i \in DOMAIN published : published[i] # <<>>
    /\ process_pc = "drain" => events # <<>>
    /\ process_pc \in {"recv", "sleep", "done"} => events = <<>>

\* Several events were sent, the last batch published holds one event, and
\* the task then found the channel closed and empty and left its loop.
C21_Witness ==
    /\ process_pc = "done"
    /\ ~tx_open
    /\ published # <<>>
    /\ Len(published[Len(published)]) = 1
    /\ Len(sent) >= 2

-----------------------------------------------------------------------------
(***************************************************************************)
(* Properties of connections through the ControllerNet.                    *)
(***************************************************************************)

\* The events of connection c among the event ids of s, in the order of s.
RECURSIVE OfConn(_, _)
OfConn(c, s) ==
    IF s = <<>> THEN <<>>
    ELSE IF payload[Head(s)].conn = c
         THEN <<payload[Head(s)]>> \o OfConn(c, Tail(s))
         ELSE OfConn(c, Tail(s))

\* s is the beginning of t.
IsPrefix(s, t) == Len(s) <= Len(t) /\ s = SubSeq(t, 1, Len(s))

\* NewTcp is first and occurs once, CloseConnection can only be last.
LifecycleOrder(evs) ==
    /\ evs # <<>> => evs[1].type = "NewTcp"
    /\ \A i \in DOMAIN evs :
        /\ i > 1 => evs[i].type # "NewTcp"
        /\ i < Len(evs) => evs[i].type # "CloseConnection"

\* C13: the events of every connection are in the event channel in the
\* order the connection sent them, and in the published batches in that
\* same order: NewTcp first, then Inbound and Outbound events,
\* CloseConnection last; no event of a connection comes before its NewTcp.
C13_ConnectionProgramOrder ==
    \A c \in Conns :
        /\ OfConn(c, sent) = conn[c].log
        /\ OfConn(c, Flatten(published) \o events \o rx) = conn[c].log
        /\ IsPrefix(OfConn(c, Flatten(published)), conn[c].log)
        /\ LifecycleOrder(OfConn(c, sent))
        /\ LifecycleOrder(OfConn(c, Flatten(published)))

\* A connection's NewTcp, traffic and CloseConnection were all published,
\* in more than one batch, with events of another connection in between.
C13_Witness ==
    \E c \in Conns, d \in Conns :
        /\ c # d
        /\ Len(published) >= 2
        /\ Len(OfConn(c, Flatten(published))) >= 3
        /\ conn[c].st = "closed"
        /\ OfConn(c, Flatten(published)) = conn[c].log
        /\ \E i, j, k \in DOMAIN sent :
            /\ i < j
            /\ j < k
            /\ payload[i].conn = c
            /\ payload[j].conn = d
            /\ payload[k].conn = c

\* The NewTcp events of connection c that were sent.
NewTcpOf(c) == {i \in DOMAIN payload : payload[i].conn = c /\ payload[i].type = "NewTcp"}

-----------------------------------------------------------------------------
(***************************************************************************)
(* The configuration slot: Controller::update_config, remove_config and    *)
(* lock, src/src/controller.rs                                             *)
(***************************************************************************)

\* Tasks calling into one Controller at the same time.
NumCallers == 3

Callers == 1..NumCallers

\* The configurations a caller may pass; "None" is the empty Option.
Configs == {"cfgA", "cfgB"}

Idle == [pc |-> "idle", op |-> "none", arg |-> "None", result |-> "none"]

\* A faulty variant of update_body: the slot is written without the
\* is_some check.
update_body_overwrite(slot, new) == [result |-> "Ok", config |-> new]

\* controller.rs:115-119, under the write lock: bail when a configuration
\* is active, else store the new one.
update_body(slot, new) ==
    IF slot # "None"
    THEN [result |-> "Err", config |-> slot]
    ELSE [result |-> "Ok", config |-> new]

\* controller.rs:123-127, under the write lock: bail when no configuration
\* is active, else clear the slot.
remove_body(slot) ==
    IF slot = "None"
    THEN [result |-> "Err", config |-> slot]
    ELSE [result |-> "Ok", config |-> "None"]

\* A faulty variant of can_write: the write lock is granted while read
\* guards are held.
can_write_despite_readers(w, rs) == w = 0

\* tokio's RwLock::write: granted when no task holds the lock in any mode,
\* w being the holder of the write lock (0: none) and rs the holders of read
\* guards.
can_write(w, rs) == w = 0 /\ rs = {}

\* tokio's RwLock::read: granted when no task holds the write lock.
can_read(w, rs) == w = 0

\* Controller::new, controller.rs:95-98: no configuration, nobody holds the
\* lock, no call in progress.
SlotInit ==
    /\ config = "None"
    /\ writer = 0
    /\ readers = {}
    /\ call = [c \in Callers |-> Idle]

\* The state of the component while another one runs.
SlotRest ==
    /\ config = "None"
    /\ writer = 0
    /\ readers = {}
    /\ call = <<>>

\* Caller c enters update_config(new) and asks for the write lock.
CallUpdate(c, new) ==
    /\ call[c].pc = "idle"
    /\ call' = [call EXCEPT ![c] =
           [pc |-> "write_wait", op |-> "update_config", arg |-> new,
            result |-> "none"]]
    /\ UNCHANGED <<config, writer, readers>>
    /\ SlotFrame

\* Caller c enters remove_config and asks for the write lock.
CallRemove(c) ==
    /\ call[c].pc = "idle"
    /\ call' = [call EXCEPT ![c] =
           [pc |-> "write_wait", op |-> "remove_config", arg |-> "None",
            result |-> "none"]]
    /\ UNCHANGED <<config, writer, readers>>
    /\ SlotFrame

\* Caller c enters lock and asks for a read lock.
CallLock(c) ==
    /\ call[c].pc = "idle"
    /\ call' = [call EXCEPT ![c] =
           [pc |-> "read_wait", op |-> "lock", arg |-> "None",
            result |-> "none"]]
    /\ UNCHANGED <<config, writer, readers>>
    /\ SlotFrame

\* Caller c enters get_subscriber and asks for a read lock; the guard lives
\* until subscribe() has returned, controller.rs:133.
CallSubscribe(c) ==
    /\ call[c].pc = "idle"
    /\ call' = [call EXCEPT ![c] =
           [pc |-> "read_wait", op |-> "get_subscriber", arg |-> "None",
            result |-> "none"]]
    /\ UNCHANGED <<config, writer, readers>>
    /\ SlotFrame

\* self.inner.write().await, controller.rs:114 and 122: granted when no
\* other task holds the lock in any mode.
AcquireWrite(c) ==
    /\ call[c].pc = "write_wait"
    /\ can_write(writer, readers)
    /\ writer' = c
    /\ call' = [call EXCEPT ![c].pc = "write_locked"]
    /\ UNCHANGED <<config, readers>>
    /\ SlotFrame

\* update_config under the lock, controller.rs:115-119; the guard is
\* dropped on return.
UpdateBody(c) ==
    /\ call[c].pc = "write_locked"
    /\ call[c].op = "update_config"
    /\ LET r == update_body(config, call[c].arg)
       IN /\ config' = r.config
          /\ call' = [call EXCEPT ![c].pc = "idle", ![c].result = r.result]
    /\ writer' = 0
    /\ UNCHANGED readers
    /\ SlotFrame

\* remove_config under the lock, controller.rs:123-127; the guard is
\* dropped on return.
RemoveBody(c) ==
    /\ call[c].pc = "write_locked"
    /\ call[c].op = "remove_config"
    /\ LET r == remove_body(config)
       IN /\ config' = r.config
          /\ call' = [call EXCEPT ![c].pc = "idle", ![c].result = r.result]
    /\ writer' = 0
    /\ UNCHANGED readers
    /\ SlotFrame

\* self.inner.read().await, controller.rs:130 and 133: granted when no task holds
\* the write lock; the caller gets the guard and sees Inner.config through
\* it.
AcquireRead(c) ==
    /\ call[c].pc = "read_wait"
    /\ can_read(writer, readers)
    /\ readers' = readers \cup {c}
    /\ call' = [call EXCEPT ![c].pc = "read_locked", ![c].result = config]
    /\ UNCHANGED <<config, writer>>
    /\ SlotFrame

\* The caller drops the RwLockReadGuard.
ReleaseRead(c) ==
    /\ call[c].pc = "read_locked"
    /\ readers' = readers \ {c}
    /\ call' = [call EXCEPT ![c].pc = "idle"]
    /\ UNCHANGED <<config, writer>>
    /\ SlotFrame

SlotNext ==
    \E c \in Callers :
        \/ \E new \in Configs : CallUpdate(c, new)
        \/ CallRemove(c)
        \/ CallLock(c)
        \/ CallSubscribe(c)
        \/ AcquireWrite(c)
        \/ UpdateBody(c)
        \/ RemoveBody(c)
        \/ AcquireRead(c)
        \/ ReleaseRead(c)

\* The calls of one kind that race in RaceInit, each waiting for its lock.
WriteCalls(op, args) ==
    {[pc |-> "write_wait", op |-> op, arg |-> a, result |-> "none"] : a \in args}

ReadCalls ==
    {[pc |-> "read_wait", op |-> op, arg |-> "None", result |-> "none"] :
        op \in {"lock", "get_subscriber"}}

\* Every caller has made one call and none has the lock yet: update_config
\* calls and readers on a controller without configuration, or
\* remove_config calls and readers on one with a configuration.
RaceInit ==
    /\ config \in {"None"} \cup Configs
    /\ writer = 0
    /\ readers = {}
    /\ call \in [Callers ->
                  ReadCalls \cup
                  (IF config = "None"
                   THEN WriteCalls("update_config", Configs)
                   ELSE WriteCalls("remove_config", {"None"}))]

\* The calls made run to their end; no further call is made.
RaceNext ==
    \E c \in Callers :
        \/ AcquireWrite(c)
        \/ UpdateBody(c)
        \/ RemoveBody(c)
        \/ AcquireRead(c)
        \/ ReleaseRead(c)

-----------------------------------------------------------------------------
(***************************************************************************)
(* Properties of the configuration slot.                                   *)
(***************************************************************************)

\* C6: whatever calls came before, update_config succeeds exactly when no
\* configuration is active and then stores its argument, remove_config
\* succeeds exactly when one is active and then empties the slot, and a
\* failing call of either leaves the slot as it was (the active
\* configuration in place, the empty slot empty).
C6_SingleSlot ==
    [][\A c \in Callers :
        (call[c].pc = "write_locked" /\ call'[c].pc = "idle") =>
            /\ call'[c].result \in {"Ok", "Err"}
            /\ call'[c].result = "Err" => config' = config
            /\ call[c].op = "update_config" =>
                /\ (call'[c].result = "Ok") <=> (config = "None")
                /\ call'[c].result = "Ok" => config' = call[c].arg
            /\ call[c].op = "remove_config" =>
                /\ (call'[c].result = "Ok") <=> (config # "None")
                /\ call'[c].result = "Ok" => config' = "None"]_vars

\* An update_config has failed against an active configuration other than
\* its argument, which is still in place, and a remove_config has failed.
C6_Witness ==
    /\ \E c \in Callers :
        /\ call[c].pc = "idle"
        /\ call[c].op = "update_config"
        /\ call[c].result = "Err"
        /\ config \notin {"None", call[c].arg}
    /\ \E c \in Callers :
        /\ call[c].pc = "idle"
        /\ call[c].op = "remove_config"
        /\ call[c].result = "Err"

\* The racing calls that write, and those of them that returned Ok or Err.
Writers == {c \in Callers : call[c].op \in {"update_config", "remove_config"}}

Returned(res) == {c \in Writers : call[c].pc = "idle" /\ call[c].result = res}

\* C19: of the update_config calls racing on a controller without
\* configuration, and of the remove_config calls racing on one with a
\* configuration, at most one has returned Ok at any moment and, once all
\* have returned, exactly one has and the others returned Err; the write
\* lock is held alone; and what a reader (lock, get_subscriber) saw when it
\* got its guard is still the slot's content while it holds the guard.
C19_WritersExclusive ==
    /\ Cardinality(Returned("Ok")) <= 1
    /\ (Writers # {} /\ \A c \in Writers : call[c].pc = "idle") =>
        /\ Cardinality(Returned("Ok")) = 1
        /\ Returned("Ok") \cup Returned("Err") = Writers
    /\ writer # 0 => readers = {}
    /\ \A c \in Callers : call[c].pc = "read_locked" => call[c].result = config

\* Of several racing writers one returned Ok and another Err, while a
\* reader holds its guard.
C19_Witness ==
    /\ Returned("Ok") # {}
    /\ Returned("Err") # {}
    /\ readers # {}

-----------------------------------------------------------------------------
(***************************************************************************)
(* NetResolver::build and get_dependency, src/rd-interface/src/registry.rs,*)
(* NetRef and ResolveNetRef, src/rd-interface/src/registry/net_ref.rs      *)
(***************************************************************************)

\* The net names a configuration may reference.
Names == {"a", "b", "c"}

\* The net handles (Arc identities) a NetMap may hold; "noop" is the
\* NotImplementedNet placeholder of get_dependency and "None" the empty
\* Option of an unresolved NetRef.
Handles == {"h1", "h2"}

\* Most Named References in one configuration in the model.
MaxRefs == 3

\* A configuration Value: whether it has the shape of the factory's
\* N::Config, and the net names written in it, in the order resolve visits
\* their fields and container elements.
CfgValues ==
    {[shaped |-> sh, refs |-> r] : sh \in BOOLEAN, r \in SeqsUpTo(Names, MaxRefs)}

\* Every NetMap over a subset of the names.
NetMaps == UNION {[S -> Handles] : S \in SUBSET Names}

\* NetMap::new().
EmptyMap == [n \in {} |-> "None"]

\* A faulty variant of from_value: the shape of the Value is not checked.
from_value_unchecked(v) ==
    [ok |-> TRUE,
     cfg |-> [i \in DOMAIN v.refs |-> [name |-> v.refs[i], net |-> "None"]]]

\* serde_json::from_value into N::Config, registry.rs:66-67 and 76-77: a
\* Deserialize error on a shape mismatch; else every name becomes a NetRef
\* without a net (net_ref.rs:92-107).
from_value(v) ==
    IF v.shaped
    THEN [ok |-> TRUE,
          cfg |-> [i \in DOMAIN v.refs |-> [name |-> v.refs[i], net |-> "None"]]]
    ELSE [ok |-> FALSE, cfg |-> <<>>]

\* A faulty variant of resolve_ref: a name the map does not hold is skipped
\* and the reference left unresolved.
resolve_ref_lenient(r, m) ==
    IF r.name \in DOMAIN m
    THEN [ok |-> TRUE, ref |-> [r EXCEPT !.net = m[r.name]], err |-> ""]
    ELSE [ok |-> TRUE, ref |-> r, err |-> ""]

\* impl ResolveNetRef for NetRef, net_ref.rs:152-161: the handle the map
\* holds under the name is stored, or NotFound(name) is returned and the
\* reference is left as it was.
resolve_ref(r, m) ==
    IF r.name \in DOMAIN m
    THEN [ok |-> TRUE, ref |-> [r EXCEPT !.net = m[r.name]], err |-> ""]
    ELSE [ok |-> FALSE, ref |-> r, err |-> r.name]

\* A faulty variant of resolve_from: all or nothing, a failure leaves no
\* element resolved.
resolve_from_atomic(refs, m, i) ==
    LET missing == {j \in i..Len(refs) : refs[j].name \notin DOMAIN m}
    IN IF missing = {}
       THEN [ok |-> TRUE,
             refs |-> [j \in DOMAIN refs |->
                          IF j >= i THEN [refs[j] EXCEPT !.net = m[refs[j].name]]
                          ELSE refs[j]],
             err |-> ""]
       ELSE [ok |-> FALSE, refs |-> refs,
             err |-> refs[CHOOSE j \in missing : \A k \in missing : j <= k].name]

\* resolve of a container, net_ref.rs:168-179, from element i on: elements
\* are resolved in iteration order and the first error is returned at once
\* ("?"); what was resolved before it stays resolved.
RECURSIVE resolve_from(_, _, _)
resolve_from(refs, m, i) ==
    IF i > Len(refs)
    THEN [ok |-> TRUE, refs |-> refs, err |-> ""]
    ELSE LET r == resolve_ref(refs[i], m)
         IN IF r.ok
            THEN resolve_from([refs EXCEPT ![i] = r.ref], m, i + 1)
            ELSE [ok |-> FALSE, refs |-> refs, err |-> r.err]

\* A faulty variant of resolve: only the first element of a container is
\* resolved.
resolve_head(refs, m) ==
    IF refs = <<>>
    THEN [ok |-> TRUE, refs |-> refs, err |-> ""]
    ELSE LET r == resolve_ref(refs[1], m)
         IN [ok |-> r.ok, refs |-> [refs EXCEPT ![1] = r.ref], err |-> r.err]

\* cfg.resolve(nets) on the typed configuration.  The references of a Vec
\* are the sequence itself, those of an Option a sequence of at most one
\* element, those of a HashMap or BTreeMap its values in iteration order
\* (net_ref.rs:180-191); every one of them is visited by the same loop.
resolve(refs, m) == resolve_from(refs, m, 1)

\* A faulty variant of dep_collect: the names are collected from the
\* references visited, not from the keys of the stub map.
dep_collect_visited(m, ord) == [i \in DOMAIN typed |-> typed[i].name]

\* net_ref.rs:148: the keys of tmp_map, in the iteration order ord of the
\* HashMap.
dep_collect(m, ord) == [i \in DOMAIN ord |-> ord[i]]

\* A NetResolver function is called: build(nets, cfg) with any map and
\* configuration, or get_dependency(cfg).
RefInit ==
    /\ ref_op \in {"build", "get_dependency"}
    /\ cfg \in CfgValues
    /\ nets \in IF ref_op = "build" THEN NetMaps ELSE {EmptyMap}
    /\ ctor_ok \in IF ref_op = "build" THEN BOOLEAN ELSE {TRUE}
    /\ typed = <<>>
    /\ tmp_map = EmptyMap
    /\ built = 0
    /\ ref_pc = "from_value"
    /\ ref_result = NoResult

\* The state of the component while another one runs.
RefRest ==
    /\ ref_op = "none"
    /\ cfg = [shaped |-> FALSE, refs |-> <<>>]
    /\ nets = EmptyMap
    /\ ctor_ok = TRUE
    /\ typed = <<>>
    /\ tmp_map = EmptyMap
    /\ built = 0
    /\ ref_pc = "rest"
    /\ ref_result = NoResult

\* registry.rs:66-67 and 76-77: the first step of both closures.
Deserialize ==
    /\ ref_pc = "from_value"
    /\ LET r == from_value(cfg)
       IN IF r.ok
          THEN /\ typed' = r.cfg
               /\ ref_pc' = "resolve"
               /\ ref_result' = ref_result
          ELSE /\ typed' = typed
               /\ ref_pc' = "done"
               /\ ref_result' = [kind |-> "Deserialize"]
    /\ UNCHANGED <<ref_op, cfg, nets, ctor_ok, tmp_map, built>>
    /\ RefFrame

\* registry.rs:68-71: build resolves the typed configuration against nets;
\* an error ends the chain of and_then.
BuildResolve ==
    /\ ref_op = "build"
    /\ ref_pc = "resolve"
    /\ LET r == resolve(typed, nets)
       IN /\ typed' = r.refs
          /\ IF r.ok
             THEN /\ ref_pc' = "new"
                  /\ ref_result' = ref_result
             ELSE /\ ref_pc' = "done"
                  /\ ref_result' = [kind |-> "NotFound", name |-> r.err]
    /\ UNCHANGED <<ref_op, cfg, nets, ctor_ok, tmp_map, built>>
    /\ RefFrame

\* registry.rs:72-73: the factory's constructor runs and its net, or its
\* error, is returned.
BuildNew ==
    /\ ref_op = "build"
    /\ ref_pc = "new"
    /\ built' = built + 1
    /\ ref_pc' = "done"
    /\ ref_result' = IF ctor_ok THEN [kind |-> "Ok"] ELSE [kind |-> "Other"]
    /\ UNCHANGED <<ref_op, cfg, nets, ctor_ok, typed, tmp_map>>
    /\ RefFrame

\* net_ref.rs:141-147: one iteration of get_dependency's loop: resolve
\* against tmp_map; on NotFound(key) the placeholder is inserted under key.
DepResolve ==
    /\ ref_op = "get_dependency"
    /\ ref_pc = "resolve"
    /\ LET r == resolve(typed, tmp_map)
       IN /\ typed' = r.refs
          /\ IF r.ok
             THEN /\ ref_pc' = "collect"
                  /\ tmp_map' = tmp_map
             ELSE /\ ref_pc' = ref_pc
                  /\ tmp_map' = Extend(tmp_map, r.err, "noop")
    /\ UNCHANGED <<ref_op, cfg, nets, ctor_ok, built, ref_result>>
    /\ RefFrame

\* net_ref.rs:148: the keys of tmp_map are returned, in the order the
\* HashMap iterates.
DepReturn ==
    /\ ref_op = "get_dependency"
    /\ ref_pc = "collect"
    /\ \E ord \in Orders(DOMAIN tmp_map) :
        ref_result' = [kind |-> "Ok", deps |-> dep_collect(tmp_map, ord)]
    /\ ref_pc' = "done"
    /\ UNCHANGED <<ref_op, cfg, nets, ctor_ok, typed, tmp_map, built>>
    /\ RefFrame

RefNext == Deserialize \/ BuildResolve \/ BuildNew \/ DepResolve \/ DepReturn

-----------------------------------------------------------------------------
(***************************************************************************)
(* Properties of the NetResolver and of named references.                  *)
(***************************************************************************)

\* C7: get_dependency on a configuration whose references carry the names
\* S terminates, and the list it returns holds exactly the names of S, each
\* once, in whatever order the references are visited and however many of
\* them share a name.
C7_GetDependency ==
    /\ <>(ref_pc = "done")
    /\ []((ref_op = "get_dependency" /\ cfg.shaped /\ ref_pc = "done") =>
            /\ ref_result.kind = "Ok"
            /\ Range(ref_result.deps) = Range(cfg.refs)
            /\ Len(ref_result.deps) = Cardinality(Range(cfg.refs)))

\* get_dependency has returned for a configuration in which two references
\* share a name and another name occurs too.
C7_Witness ==
    /\ ref_op = "get_dependency"
    /\ ref_pc = "done"
    /\ ref_result.kind = "Ok"
    /\ Cardinality(Range(cfg.refs)) >= 2
    /\ Len(cfg.refs) > Cardinality(Range(cfg.refs))

\* The map the operation resolves against: nets for build, the stub map
\* for get_dependency.
ResolveMap == IF ref_op = "build" THEN nets ELSE tmp_map

\* The resolve call of the operation has returned Ok.
ResolveSucceeded ==
    \/ /\ ref_op = "build"
       /\ \/ ref_pc = "new"
          \/ ref_pc = "done" /\ ref_result.kind \in {"Ok", "Other"}
    \/ /\ ref_op = "get_dependency"
       /\ cfg.shaped
       /\ ref_pc \in {"collect", "done"}

\* C12: once resolve has succeeded on a configuration, every reference in
\* it, at whatever place of a sequence, optional slot or mapping, keeps the
\* name it was written with and holds the very handle the map holds under
\* that name.
C12_ResolvedIdentity ==
    ResolveSucceeded =>
        /\ Len(typed) = Len(cfg.refs)
        /\ \A i \in DOMAIN typed :
            /\ typed[i].name = cfg.refs[i]
            /\ typed[i].name \in DOMAIN ResolveMap
            /\ typed[i].net = ResolveMap[typed[i].name]

\* build has resolved a configuration in which two references share a name
\* and two references hold different handles.
C12_Witness ==
    /\ ref_op = "build"
    /\ ResolveSucceeded
    /\ \E i, j \in DOMAIN typed : i # j /\ typed[i].name = typed[j].name
    /\ \E i, j \in DOMAIN typed : typed[i].net # typed[j].net

\* The positions of the references of cfg whose name nets does not hold.
Absent == {i \in DOMAIN cfg.refs : cfg.refs[i] \notin DOMAIN nets}

\* C8: build on a well-shaped configuration that references a name absent
\* from nets never invokes the factory's constructor and fails with
\* NotFound carrying an absent name the configuration references: the
\* first one resolve comes to.
C8_UndefinedNetNotFound ==
    (ref_op = "build" /\ cfg.shaped /\ Absent # {}) =>
        /\ built = 0
        /\ ref_pc = "done" =>
             ref_result =
                [kind |-> "NotFound",
                 name |-> cfg.refs[CHOOSE i \in Absent : \A j \in Absent : i <= j]]

\* build has returned for a configuration whose first reference is in nets
\* and a later one is not.
C8_Witness ==
    /\ ref_op = "build"
    /\ cfg.shaped
    /\ ref_pc = "done"
    /\ Absent # {}
    /\ 1 \in DOMAIN cfg.refs
    /\ 1 \notin Absent

\* C18: build deserializes, then resolves, then constructs: a configuration
\* that does not have the factory's shape fails with Deserialize, also when
\* names it references are absent from nets, and no reference of it is ever
\* resolved; the constructor runs at most once, and only for a well-shaped
\* configuration all of whose references were resolved.
C18_BuildOrder ==
    ref_op = "build" =>
        /\ ~cfg.shaped =>
            /\ built = 0
            /\ typed = <<>>
            /\ ref_pc \in {"from_value", "done"}
            /\ ref_pc = "done" => ref_result = [kind |-> "Deserialize"]
        /\ built > 0 =>
            /\ built = 1
            /\ cfg.shaped
            /\ Absent = {}
            /\ Len(typed) = Len(cfg.refs)
            /\ \A i \in DOMAIN typed : typed[i].net = nets[cfg.refs[i]]
        /\ ref_pc = "new" => cfg.shaped /\ Absent = {}

\* build has returned for a configuration of the wrong shape that also
\* references a name absent from nets.
C18_Witness ==
    /\ ref_op = "build"
    /\ ~cfg.shaped
    /\ Absent # {}
    /\ ref_pc = "done"
    /\ ref_result.kind = "Deserialize"

\* The positions of the references of the typed configuration whose name
\* the map resolved against does not hold.
Unresolvable == {i \in DOMAIN typed : typed[i].name \notin DOMAIN ResolveMap}

\* The first of them, where resolve stops.
FirstUnresolvable == CHOOSE i \in Unresolvable : \A j \in Unresolvable : i <= j

\* What one call of resolve on the typed configuration does.
ResolveStep ==
    ref_pc = "resolve" =>
        IF Unresolvable = {}
        THEN /\ ref_pc' \in {"new", "collect"}
             /\ \A i \in DOMAIN typed :
                    typed'[i] = [typed[i] EXCEPT !.net = ResolveMap[typed[i].name]]
        ELSE /\ Len(typed') = Len(typed)
             /\ \A i \in DOMAIN typed :
                    typed'[i] = IF i < FirstUnresolvable
                                THEN [typed[i] EXCEPT !.net = ResolveMap[typed[i].name]]
                                ELSE typed[i]
             /\ ref_op = "build" =>
                    /\ ref_pc' = "done"
                    /\ ref_result' = [kind |-> "NotFound",
                                      name |-> typed[FirstUnresolvable].name]
             /\ ref_op = "get_dependency" =>
                    /\ ref_pc' = "resolve"
                    /\ tmp_map' = Extend(tmp_map, typed[FirstUnresolvable].name, "noop")

\* C23: resolve on a container visits its elements in iteration order and
\* stops at the first reference whose name the map does not hold: the
\* NotFound it returns names that reference, the references before it hold
\* the handles of the map (nothing is rolled back) and that reference and
\* all later ones are as they were; and once get_dependency is through its
\* loop every reference of the configuration holds the no-op placeholder.
C23_PartialResolve ==
    /\ [][ResolveStep]_vars
    /\ []((ref_op = "get_dependency" /\ ref_pc \in {"collect", "done"} /\ cfg.shaped) =>
            /\ Len(typed) = Len(cfg.refs)
            /\ \A i \in DOMAIN typed : typed[i].net = "noop")

\* build has failed with NotFound on the second of three references: the
\* first holds its handle, the second and the third hold none, though nets
\* holds the name of the third.
C23_Witness ==
    /\ ref_op = "build"
    /\ ref_pc = "done"
    /\ ref_result.kind = "NotFound"
    /\ Len(typed) = 3
    /\ typed[1].net \in Handles
    /\ ref_result.name = typed[2].name
    /\ typed[2].net = "None"
    /\ typed[3].name \in DOMAIN nets
    /\ typed[3].net = "None"

-----------------------------------------------------------------------------
(***************************************************************************)
(* DomainMatcher, src/rd-std/src/rule/domain.rs                            *)
(*                                                                         *)
(* A string is the sequence of its characters.                             *)
(***************************************************************************)

\* The characters of the generic strings of the model.
Chars == {"a", "."}

\* Longest generic string in the model.
MaxLen == 2

ExampleCom == <<"e", "x", "a", "m", "p", "l", "e", ".", "c", "o", "m">>
WwwExampleCom == <<"w", "w", "w", ".">> \o ExampleCom
NotExampleCom == <<"n", "o", "t">> \o ExampleCom

\* The patterns a DomainMatcher may be configured with.
Patterns == SeqsUpTo(Chars, MaxLen) \cup {ExampleCom}

\* The domain names of Address::Domain.
DomainNames ==
    SeqsUpTo(Chars, MaxLen) \cup {ExampleCom, WwwExampleCom, NotExampleCom}

\* The socket addresses of Address::SocketAddr, by the text of their IP.
IpTexts == {<<"1", ".", "1", ".", "1", ".", "1">>, <<":", ":", "1">>}

Methods == {"Keyword", "Suffix", "Match"}

Matchers == [method : Methods, domain : Patterns]

Addresses ==
    [kind : {"Domain"}, host : DomainNames, port : {80, 443}]
        \cup [kind : {"SocketAddr"}, host : IpTexts, port : {80, 443}]

\* str::contains: pat occurs in s as a contiguous substring.
contains(s, pat) ==
    \E i \in 0..(Len(s) - Len(pat)) : SubSeq(s, i + 1, i + Len(pat)) = pat

\* str::ends_with: the last Len(suf) characters of s are suf.
ends_with(s, suf) ==
    /\ Len(suf) <= Len(s)
    /\ SubSeq(s, Len(s) - Len(suf) + 1, Len(s)) = suf

\* DomainMatcher::test, domain.rs:22-28.
test(m, domain) ==
    CASE m.method = "Keyword" -> contains(domain, m.domain)
      [] m.method = "Match" -> domain = m.domain
      [] m.method = "Suffix" -> ends_with(domain, m.domain)

\* A faulty variant of match_rule: the method is applied to the host text
\* of any address.
match_rule_any_address(m, a) == test(m, a.host)

\* Matcher::match_rule, domain.rs:32-39: test on the name of a Domain
\* address, false for any other address.
match_rule(m, a) ==
    IF a.kind = "Domain" THEN test(m, a.host) ELSE FALSE

\* match_rule is about to be called with any matcher and address.
DomInit ==
    /\ matcher \in Matchers
    /\ addr \in Addresses
    /\ dm_pc = "call"
    /\ dm_result = "none"

\* The state of the component while another one runs.
DomRest ==
    /\ matcher = [method |-> "Match", domain |-> <<>>]
    /\ addr = [kind |-> "Domain", host |-> <<>>, port |-> 80]
    /\ dm_pc = "rest"
    /\ dm_result = "none"

\* The call of match_rule, domain.rs:32-39; the bool becomes the returned
\* MaybeAsync<bool>.
MatchRule ==
    /\ dm_pc = "call"
    /\ dm_result' = IF match_rule(matcher, addr) THEN "true" ELSE "false"
    /\ dm_pc' = "done"
    /\ UNCHANGED <<matcher, addr>>
    /\ DomFrame

DomNext == MatchRule

-----------------------------------------------------------------------------
(***************************************************************************)
(* Properties of the domain matcher.                                       *)
(***************************************************************************)

\* C9: a Suffix matcher with pattern "example.com" matches the domains
\* "www.example.com" and "example.com" and does not match "notexample.com",
\* whose trailing characters equal the pattern without a label boundary
\* before them.
C9_SuffixLabelBoundary ==
    (/\ dm_pc = "done"
     /\ matcher = [method |-> "Suffix", domain |-> ExampleCom]
     /\ addr.kind = "Domain") =>
        /\ addr.host \in {WwwExampleCom, ExampleCom} => dm_result = "true"
        /\ addr.host = NotExampleCom => dm_result = "false"

\* C10: for every method and pattern, match_rule reports no-match on an
\* address that is a socket address.
C10_SocketAddrNoMatch ==
    (dm_pc = "done" /\ addr.kind = "SocketAddr") => dm_result = "false"

\* match_rule has returned for a socket address whose IP text contains the
\* pattern of a Keyword matcher.
C10_Witness ==
    /\ dm_pc = "done"
    /\ addr.kind = "SocketAddr"
    /\ matcher.method = "Keyword"
    /\ matcher.domain = <<".">>
    /\ contains(addr.host, matcher.domain)

-----------------------------------------------------------------------------
(***************************************************************************)
(* SelectNet, src/src/composite/select.rs                                  *)
(***************************************************************************)

\* The three operations of INet.
NetOps == {"tcp_connect", "tcp_bind", "udp_bind"}

NoCall == [op |-> "none"]

\* What the call of op on net h gives: the net's own stream, listener or
\* socket when it succeeds, the net's own error when it fails.
inner_outcome(h, op, ok) == [by |-> h, op |-> op, ok |-> ok]

\* A faulty variant of get: the index starts at the length of the list,
\* which the check "index > len" lets through.
get_at_len(v) == Len(v)

\* SelectNet::get, select.rs:17-25: the index (from 0) of the candidate
\* picked; it starts at 0 and is reset to 0 when it exceeds the length.
get(v) ==
    LET index == 0
    IN IF index > Len(v) THEN 0 ELSE index

\* &self.0[index], select.rs:24: indexing a Vec from 0; an index that is not
\* below the length panics.
vec_at(v, index) == IF index < Len(v) THEN v[index + 1] ELSE "panic"

\* SelectNet::new is about to be called with any map.
SelInit ==
    /\ sel_in \in NetMaps
    /\ sel_vec = <<>>
    /\ sel_pc = "new"
    /\ sel_call = NoCall

\* The state of the component while another one runs.
SelRest ==
    /\ sel_in = EmptyMap
    /\ sel_vec = <<>>
    /\ sel_pc = "rest"
    /\ sel_call = NoCall

\* SelectNet::new, select.rs:10-16: the values of the map, in the order the
\* HashMap iterates, become the candidates; no candidate is an error.
SelectNew ==
    /\ sel_pc = "new"
    /\ \E ord \in Orders(DOMAIN sel_in) :
        LET v == [i \in DOMAIN ord |-> sel_in[ord[i]]]
        IN /\ sel_vec' = v
           /\ sel_pc' = IF Len(v) = 0 THEN "failed" ELSE "ready"
    /\ UNCHANGED <<sel_in, sel_call>>
    /\ SelFrame

\* tcp_connect, tcp_bind or udp_bind on the SelectNet, select.rs:30-40: get
\* picks the candidate and the call is passed to it; ok is whether the
\* candidate's own call succeeds.
SelectCall(op, ok) ==
    /\ sel_pc = "ready"
    /\ LET index == get(sel_vec)
           h == vec_at(sel_vec, index)
       IN sel_call' =
            [op |-> op, index |-> index, inner_ok |-> ok,
             result |-> IF h = "panic" THEN [by |-> "panic", op |-> op, ok |-> FALSE]
                        ELSE inner_outcome(h, op, ok)]
    /\ UNCHANGED <<sel_in, sel_vec, sel_pc>>
    /\ SelFrame

SelNext ==
    \/ SelectNew
    \/ \E op \in NetOps, ok \in BOOLEAN : SelectCall(op, ok)

-----------------------------------------------------------------------------
(***************************************************************************)
(* Properties of SelectNet.                                                *)
(***************************************************************************)

\* C11: SelectNet::new fails when the map holds no net; when it holds
\* N >= 1 nets it succeeds with those N candidates, and every tcp_connect,
\* tcp_bind and udp_bind picks an index inside the candidate list and gives
\* exactly what the picked candidate's call gives.
C11_SelectInBounds ==
    /\ (sel_pc \in {"ready", "failed"} /\ DOMAIN sel_in = {}) => sel_pc = "failed"
    /\ (sel_pc \in {"ready", "failed"} /\ DOMAIN sel_in # {}) =>
        /\ sel_pc = "ready"
        /\ Len(sel_vec) = Cardinality(DOMAIN sel_in)
        /\ Range(sel_vec) = {sel_in[n] : n \in DOMAIN sel_in}
    /\ sel_call.op # "none" =>
        /\ sel_call.index \in 0..(Len(sel_vec) - 1)
        /\ sel_call.result =
             inner_outcome(sel_vec[sel_call.index + 1], sel_call.op,
                           sel_call.inner_ok)

\* A call on a SelectNet of several candidates returned the picked
\* candidate's error.
C11_Witness ==
    /\ sel_pc = "ready"
    /\ Len(sel_vec) >= 2
    /\ sel_call.op = "udp_bind"
    /\ ~sel_call.inner_ok

-----------------------------------------------------------------------------
(***************************************************************************)
(* The mixed HTTP+SOCKS5 server, src/rd-std/src/mixed.rs                   *)
(***************************************************************************)

\* Connections the listener accepts in the model.
MaxAccepts == 3

\* The first byte of a connection: 5 opens SOCKS5, anything else is taken
\* as HTTP.
FirstBytes == {5, 71}

\* mixed.rs:33-36: the protocol server a connection is handed to.
dispatch(byte) == IF byte = 5 THEN "socks5" ELSE "http"

\* A faulty variant of after_task_error: the error of a connection is
\* passed on to the accept loop, which returns it.
after_task_error_abort(loop) == "returned"

\* mixed.rs:59-63: the connection runs in a task of its own; its error is
\* reported there and nothing is returned to the accept loop, which stays
\* where it is.
after_task_error(loop) == loop

\* HttpSocks5::start is called.
MxInit ==
    /\ mx_loop = "bind"
    /\ mx_result = "none"
    /\ mx_tasks = <<>>
    /\ mx_log = <<>>

\* The state of the component while another one runs.
MxRest ==
    /\ mx_loop = "rest"
    /\ mx_result = "none"
    /\ mx_tasks = <<>>
    /\ mx_log = <<>>

\* mixed.rs:50-53: tcp_bind on the listen net; its error ends start.
MxBind(ok) ==
    /\ mx_loop = "bind"
    /\ mx_loop' = IF ok THEN "accept" ELSE "returned"
    /\ mx_result' = IF ok THEN mx_result ELSE "BindErr"
    /\ UNCHANGED <<mx_tasks, mx_log>>
    /\ MxFrame

\* mixed.rs:56-63: accept gives a connection and a task is spawned for it,
\* or accept fails and "?" returns the error from start.
MxAccept(ok) ==
    /\ mx_loop = "accept"
    /\ Len(mx_tasks) < MaxAccepts
    /\ IF ok
       THEN /\ mx_tasks' = Append(mx_tasks,
                                  [st |-> "spawned", proto |-> "none",
                                   after |-> Len(mx_log)])
            /\ UNCHANGED <<mx_loop, mx_result>>
       ELSE /\ mx_loop' = "returned"
            /\ mx_result' = "AcceptErr"
            /\ UNCHANGED mx_tasks
    /\ UNCHANGED mx_log
    /\ MxFrame

\* mixed.rs:28-36: the task of connection t reads the first byte and hands
\* the connection to the SOCKS5 or the HTTP server.
MxPeek(t, byte) ==
    /\ t \in DOMAIN mx_tasks
    /\ mx_tasks[t].st = "spawned"
    /\ mx_tasks' = [mx_tasks EXCEPT ![t].st = "serving", ![t].proto = dispatch(byte)]
    /\ UNCHANGED <<mx_loop, mx_result, mx_log>>
    /\ MxFrame

\* mixed.rs:30 and 60-62: peek_exact fails, serve_connection returns the
\* error and the task reports it and ends.
MxPeekFail(t) ==
    /\ t \in DOMAIN mx_tasks
    /\ mx_tasks[t].st = "spawned"
    /\ mx_tasks' = [mx_tasks EXCEPT ![t].st = "failed"]
    /\ mx_log' = Append(mx_log, t)
    /\ mx_loop' = after_task_error(mx_loop)
    /\ UNCHANGED mx_result
    /\ MxFrame

\* mixed.rs:34-35 and 60-62: the protocol server returns; an error is
\* reported and the task ends either way.
MxServed(t, ok) ==
    /\ t \in DOMAIN mx_tasks
    /\ mx_tasks[t].st = "serving"
    /\ IF ok
       THEN /\ mx_tasks' = [mx_tasks EXCEPT ![t].st = "ok"]
            /\ UNCHANGED <<mx_log, mx_loop>>
       ELSE /\ mx_tasks' = [mx_tasks EXCEPT ![t].st = "failed"]
            /\ mx_log' = Append(mx_log, t)
            /\ mx_loop' = after_task_error(mx_loop)
    /\ UNCHANGED mx_result
    /\ MxFrame

MxNext ==
    \/ \E ok \in BOOLEAN : MxBind(ok)
    \/ \E ok \in BOOLEAN : MxAccept(ok)
    \/ \E t \in 1..MaxAccepts, byte \in FirstBytes : MxPeek(t, byte)
    \/ \E t \in 1..MaxAccepts : MxPeekFail(t)
    \/ \E t \in 1..MaxAccepts, ok \in BOOLEAN : MxServed(t, ok)

-----------------------------------------------------------------------------
(***************************************************************************)
(* Properties of the mixed server.                                         *)
(***************************************************************************)

\* C15: a failure while serving an accepted connection, the failure to read
\* its first byte included, ends only that connection's task and is
\* reported: the accept loop stops only on an error of bind or accept
\* itself, so while none occurred it stands at accept, ready for the next
\* connection, whatever number of tasks failed; the reported tasks are
\* exactly the failed ones, each reported once.
C15_FailureScoped ==
    /\ mx_loop = "returned" <=> mx_result \in {"BindErr", "AcceptErr"}
    /\ (mx_loop # "bind" /\ mx_result = "none") =>
        /\ mx_loop = "accept"
        /\ Len(mx_tasks) < MaxAccepts => ENABLED MxAccept(TRUE)
    /\ Range(mx_log) = {t \in DOMAIN mx_tasks : mx_tasks[t].st = "failed"}
    /\ Len(mx_log) = Cardinality(Range(mx_log))

\* After one connection failed at its first byte and another failed in its
\* protocol server, a connection accepted later was served to the end.
C15_Witness ==
    \E t, u, w \in DOMAIN mx_tasks :
        /\ mx_tasks[t].st = "failed" /\ mx_tasks[t].proto = "none"
        /\ mx_tasks[u].st = "failed" /\ mx_tasks[u].proto # "none"
        /\ mx_tasks[w].st = "ok" /\ mx_tasks[w].after >= 2

-----------------------------------------------------------------------------
(***************************************************************************)
(* The life of one NetRef, src/rd-interface/src/registry/net_ref.rs        *)
(***************************************************************************)

\* The names a NetRef may carry: those of the configurations and the
\* default one.
RefNames == Names \cup {"local"}

\* Every NetMap over a subset of these names.
RefNetMaps == UNION {[S -> Handles] : S \in SUBSET RefNames}

\* resolve calls made on the NetRef in the model.
MaxResolves == 2

\* No NetRef yet.
NoRef == [name |-> "", net |-> "None"]

\* impl From<String> for NetRef, net_ref.rs:23-27.
from_string(name) == [name |-> name, net |-> "None"]

\* default_net, net_ref.rs:41-46, which Default::default returns.
default_net == [name |-> "local", net |-> "None"]

\* visit_str and visit_string of the Deserialize impl, net_ref.rs:92-107.
deserialize_ref(name) == [name |-> name, net |-> "None"]

\* A faulty variant of net_of: a NetRef without a net gives the placeholder
\* net instead of failing.
net_of_lenient(r) == IF r.net = "None" THEN "noop" ELSE r.net

\* NetRef::net, net_ref.rs:52-57, and Deref::deref, net_ref.rs:63-67: the
\* net when there is one; expect panics on None.
net_of(r) == IF r.net = "None" THEN "panic" ELSE r.net

\* net() or dereference was not called.
NoUse == [out |-> "none", after |-> 0]

\* No NetRef was made yet; the map is any map.
NrInit ==
    /\ nr_ref = NoRef
    /\ nr_nets \in RefNetMaps
    /\ nr_origin = "none"
    /\ nr_resolve = <<>>
    /\ nr_use = NoUse

\* The state of the component while another one runs.
NrRest ==
    /\ nr_ref = NoRef
    /\ nr_nets = EmptyMap
    /\ nr_origin = "rest"
    /\ nr_resolve = <<>>
    /\ nr_use = NoUse

\* A NetRef is deserialized from the string name.
NrDeserialize(name) ==
    /\ nr_origin = "none"
    /\ nr_ref' = deserialize_ref(name)
    /\ nr_origin' = "deserialize"
    /\ UNCHANGED <<nr_nets, nr_resolve, nr_use>>
    /\ NrFrame

\* NetRef::from(name).
NrFrom(name) ==
    /\ nr_origin = "none"
    /\ nr_ref' = from_string(name)
    /\ nr_origin' = "from"
    /\ UNCHANGED <<nr_nets, nr_resolve, nr_use>>
    /\ NrFrame

\* NetRef::default().
NrDefault ==
    /\ nr_origin = "none"
    /\ nr_ref' = default_net
    /\ nr_origin' = "default"
    /\ UNCHANGED <<nr_nets, nr_resolve, nr_use>>
    /\ NrFrame

\* resolve(nets) on the NetRef, net_ref.rs:152-161, against the map as it is
\* at the call: the caller may have changed the map since the last call.
NrResolve(m) ==
    /\ nr_origin \notin {"none", "rest"}
    /\ Len(nr_resolve) < MaxResolves
    /\ nr_nets' = m
    /\ LET r == resolve_ref(nr_ref, m)
       IN /\ nr_ref' = r.ref
          /\ nr_resolve' = Append(nr_resolve, IF r.ok THEN "Ok" ELSE "NotFound")
    /\ UNCHANGED <<nr_origin, nr_use>>
    /\ NrFrame

\* net() or a dereference of the NetRef.
NrUse ==
    /\ nr_origin \notin {"none", "rest"}
    /\ nr_use = NoUse
    /\ nr_use' = [out |-> net_of(nr_ref), after |-> Len(nr_resolve)]
    /\ UNCHANGED <<nr_ref, nr_nets, nr_origin, nr_resolve>>
    /\ NrFrame

NrNext ==
    \/ \E name \in RefNames : NrDeserialize(name)
    \/ \E name \in RefNames : NrFrom(name)
    \/ NrDefault
    \/ \E m \in RefNetMaps : NrResolve(m)
    \/ NrUse

-----------------------------------------------------------------------------
(***************************************************************************)
(* Properties of a NetRef.                                                 *)
(***************************************************************************)

\* One of the first n resolve calls on the NetRef returned Ok.
ResolvedBy(n) == \E i \in 1..n : nr_resolve[i] = "Ok"

\* C16: a NetRef carries a net only once a resolve call on it has
\* succeeded: fresh from deserialization, From<String> or Default (whose
\* name is "local") it carries none, and a resolve failing with NotFound
\* gives it none; net() and dereference yield its net, a handle of the map,
\* when a resolve succeeded before, and panic otherwise: they never return
\* an error value or a stand-in net.
C16_UsableOnlyResolved ==
    /\ nr_origin = "default" => nr_ref.name = "local"
    /\ nr_ref.net # "None" <=> ResolvedBy(Len(nr_resolve))
    /\ nr_use # NoUse =>
        /\ nr_use.out \in Handles \cup {"panic"}
        /\ nr_use.out # "panic" <=> ResolvedBy(nr_use.after)
        /\ (nr_use.out # "panic" /\ nr_use.after = Len(nr_resolve)) =>
            nr_use.out = nr_ref.net

\* A NetRef made by Default was used after its only resolve failed with
\* NotFound.
C16_Witness ==
    /\ nr_origin = "default"
    /\ nr_resolve = <<"NotFound">>
    /\ nr_use = [out |-> "panic", after |-> 1]

-----------------------------------------------------------------------------
(***************************************************************************)
(* Registry::add_net and add_server, src/rd-interface/src/registry.rs      *)
(***************************************************************************)

\* Registrations made in the model.
MaxRegs == 3

\* The net factories of the model with their NAME; two of them share one.
NetFactories ==
    {[id |-> "NetA", name |-> "alias"], [id |-> "NetB", name |-> "alias"],
     [id |-> "NetC", name |-> "local"]}

\* The server factories of the model with their NAME; two of them share one.
ServerFactories ==
    {[id |-> "SrvA", name |-> "http"], [id |-> "SrvB", name |-> "http"],
     [id |-> "SrvC", name |-> "local"]}

\* A faulty variant of insert: an entry already there is kept.
insert_keep(m, k, v) == IF k \in DOMAIN m THEN m ELSE Extend(m, k, v)

\* HashMap::insert: the value is stored under the key, in place of the value
\* there was, and the other entries stay.
insert(m, k, v) == [x \in (DOMAIN m) \cup {k} |-> IF x = k THEN v ELSE m[x]]

\* Registry::new, registry.rs:32-37.
RegInit ==
    /\ reg_net = EmptyMap
    /\ reg_server = EmptyMap
    /\ reg_log = <<>>

\* The state of the component while another one runs.
RegRest ==
    /\ reg_net = EmptyMap
    /\ reg_server = EmptyMap
    /\ reg_log = <<>>

\* add_net::<N>(), registry.rs:38-40.
AddNet(f) ==
    /\ Len(reg_log) < MaxRegs
    /\ reg_net' = insert(reg_net, f.name, f.id)
    /\ reg_log' = Append(reg_log, [map |-> "net", name |-> f.name, id |-> f.id])
    /\ UNCHANGED reg_server
    /\ RegFrame

\* add_server::<S>(), registry.rs:41-44.
AddServer(f) ==
    /\ Len(reg_log) < MaxRegs
    /\ reg_server' = insert(reg_server, f.name, f.id)
    /\ reg_log' = Append(reg_log, [map |-> "server", name |-> f.name, id |-> f.id])
    /\ UNCHANGED reg_net
    /\ RegFrame

RegNext ==
    \/ \E f \in NetFactories : AddNet(f)
    \/ \E f \in ServerFactories : AddServer(f)

-----------------------------------------------------------------------------
(***************************************************************************)
(* Properties of the Registry.                                             *)
(***************************************************************************)

\* The registrations made in map kind under name, by position in the log.
RegsOf(kind, name) ==
    {i \in DOMAIN reg_log : reg_log[i].map = kind /\ reg_log[i].name = name}

\* m holds, under exactly the names registered in map kind, the factory of
\* the last registration made under each.
LastWins(m, kind) ==
    /\ DOMAIN m = {reg_log[i].name : i \in {j \in DOMAIN reg_log : reg_log[j].map = kind}}
    /\ \A name \in DOMAIN m :
        LET last == CHOOSE i \in RegsOf(kind, name) : \A j \in RegsOf(kind, name) : j <= i
        IN m[name] = reg_log[last].id

\* C17: after any sequence of add_net and add_server, each of the two
\* mappings holds one factory under every kind name registered in it, the
\* factory of the last registration made under that name, and nothing else;
\* a registration under a name already taken is always possible, and a
\* registration changes no entry under another name or in the other mapping.
C17_LastRegistrationWins ==
    /\ LastWins(reg_net, "net")
    /\ LastWins(reg_server, "server")
    /\ Len(reg_log) < MaxRegs =>
        /\ \A f \in NetFactories : ENABLED AddNet(f)
        /\ \A f \in ServerFactories : ENABLED AddServer(f)

\* A net factory was registered under a name taken by another one, while
\* the server mapping holds an entry.
C17_Witness ==
    /\ Len(reg_log) >= 3
    /\ \E i, j \in DOMAIN reg_log :
        /\ i < j
        /\ reg_log[i].map = "net"
        /\ reg_log[j].map = "net"
        /\ reg_log[i].name = reg_log[j].name
        /\ reg_log[i].id # reg_log[j].id
        /\ reg_net[reg_log[j].name] = reg_log[j].id
    /\ DOMAIN reg_server # {}

-----------------------------------------------------------------------------
(***************************************************************************)
(* Specifications.                                                         *)
(***************************************************************************)

\* topological_sort is called on any map of Maps.
InitTopo == TopoInit /\ BusRest /\ SlotRest /\ RefRest /\ DomRest /\ SelRest /\ ConnRest /\ MxRest /\ NrRest /\ RegRest

SpecTopo == InitTopo /\ [][TopoNext]_vars

\* A controller was created; events are sent while the batching task runs.
InitBus == BusInit /\ TopoRest /\ SlotRest /\ RefRest /\ DomRest /\ SelRest /\ ConnRest /\ MxRest /\ NrRest /\ RegRest

SpecBus == InitBus /\ [][BusNext]_vars

SpecBurst == InitBus /\ [][BurstNext]_vars

\* The bus with producers that never stop and a fairly scheduled batching
\* task.
SpecFlow == InitBus /\ [][FlowNext]_vars /\ WF_vars(FlowProcess)

\* The controller's bus fed by connections through the ControllerNet.
SpecConn == InitBus /\ [][ConnNext]_vars

\* A controller was created; tasks call update_config, remove_config and lock.
InitSlot == SlotInit /\ TopoRest /\ BusRest /\ RefRest /\ DomRest /\ SelRest /\ ConnRest /\ MxRest /\ NrRest /\ RegRest

SpecSlot == InitSlot /\ [][SlotNext]_vars

\* Concurrent calls racing for the controller's lock.
InitRace == RaceInit /\ TopoRest /\ BusRest /\ RefRest /\ DomRest /\ SelRest /\ ConnRest /\ MxRest /\ NrRest /\ RegRest

SpecRace == InitRace /\ [][RaceNext]_vars

\* NetResolver::build or get_dependency is called on any configuration.  The
\* call is straight-line code on one thread: it keeps running until it
\* returns.
InitRef == RefInit /\ TopoRest /\ BusRest /\ SlotRest /\ DomRest /\ SelRest /\ ConnRest /\ MxRest /\ NrRest /\ RegRest

SpecRef == InitRef /\ [][RefNext]_vars /\ WF_vars(RefNext)

\* match_rule is called with any matcher on any address.
InitDom == DomInit /\ TopoRest /\ BusRest /\ SlotRest /\ RefRest /\ SelRest /\ ConnRest /\ MxRest /\ NrRest /\ RegRest

SpecDom == InitDom /\ [][DomNext]_vars

\* SelectNet::new is called with any map, then the net is used.
InitSel == SelInit /\ TopoRest /\ BusRest /\ SlotRest /\ RefRest /\ DomRest /\ ConnRest /\ MxRest /\ NrRest /\ RegRest

SpecSel == InitSel /\ [][SelNext]_vars

\* HttpSocks5::start is called and connections arrive.
InitMx == MxInit /\ TopoRest /\ BusRest /\ SlotRest /\ RefRest /\ DomRest /\ SelRest /\ ConnRest /\ NrRest /\ RegRest

SpecMx == InitMx /\ [][MxNext]_vars

\* A NetRef is made, resolved and used.
InitNr == NrInit /\ TopoRest /\ BusRest /\ SlotRest /\ RefRest /\ DomRest /\ SelRest /\ ConnRest /\ MxRest /\ RegRest

SpecNr == InitNr /\ [][NrNext]_vars

\* A Registry is made and factories are registered.
InitReg == RegInit /\ TopoRest /\ BusRest /\ SlotRest /\ RefRest /\ DomRest /\ SelRest /\ ConnRest /\ MxRest /\ NrRest

SpecReg == InitReg /\ [][RegNext]_vars

=============================================================================
